---- MODULE Spec2Model ----
(***************************************************************************)
(* A model of the OpenID Connect relying-party client of src/client.rs:    *)
(* Client::decode_token (key selection, declared-algorithm cross-check,    *)
(* verification dispatch), Client::validate_token (the ordered claim       *)
(* checks) and Client::authenticate (exchange, decode, validate).          *)
(*                                                                         *)
(* The signature primitives, the JSON/base64 parsing of a compact token    *)
(* and the HTTP exchange are library code called by client.rs; they are    *)
(* modelled by their outcomes: a token records whether its header and      *)
(* payload parse and which key material its signature verifies under.      *)
(***************************************************************************)
EXTENDS Integers, Sequences, FiniteSets, TLC

VARIABLES client, options, now, raw, token, last, bearer, procs

vars == <<client, options, now, raw, token, last, bearer, procs>>

(***************************************************************************)
(* Option<T>: None is the empty sequence, Some(x) the one-element sequence. *)
(***************************************************************************)
None == <<>>
Some(x) == <<x>>
IsSome(o) == o # <<>>
Unwrap(o) == o[1]
OptionOf(S) == {None} \cup {Some(x) : x \in S}

(***************************************************************************)
(* Bounds of the model.                                                    *)
(***************************************************************************)
\* the largest number of keys in a KeySet
MaxKeys == 2

(***************************************************************************)
(* biscuit::jwa::SignatureAlgorithm and jwa::Algorithm.                    *)
(***************************************************************************)
HmacAlgs == {"HS256", "HS384", "HS512"}
RsaAlgs == {"RS256", "RS384", "RS512"}
SignatureAlgorithms ==
    {"None"} \cup HmacAlgs \cup RsaAlgs
        \cup {"ES256", "ES384", "ES512", "PS256", "PS384", "PS512"}

\* jwa::Algorithm::Signature(sig)
SigAlg(a) == [class |-> "Signature", name |-> a]
\* jwa::Algorithm::KeyManagement(a): an algorithm that is no signature algorithm
KeyMgmtAlg(a) == [class |-> "KeyManagement", name |-> a]

\* format!("{:?}", x) of a SignatureAlgorithm: its variant name
FmtSig(a) == a
\* format!("{:?}", x) of a jwa::Algorithm: Variant(Inner)
FmtAlg(alg) == alg.class \o "(" \o alg.name \o ")"
\* format!("{:?}", s) of a string literal: the literal in double quotes
FmtStr(s) == "\"" \o s \o "\""

\* SignatureAlgorithm::default()
DefaultSignatureAlgorithm == "HS256"

(***************************************************************************)
(* Result<(), Error>, and a panic as a third outcome.                      *)
(***************************************************************************)
Ok == [kind |-> "Ok", err |-> "-", expected |-> "-", actual |-> "-", val |-> 0]
Err(e) == [kind |-> "Err", err |-> e, expected |-> "-", actual |-> "-", val |-> 0]
ErrEA(e, x, y) == [kind |-> "Err", err |-> e, expected |-> x, actual |-> y, val |-> 0]
ErrVal(e, v) == [kind |-> "Err", err |-> e, expected |-> "-", actual |-> "-", val |-> v]
Panic(m) == [kind |-> "Panic", err |-> m, expected |-> "-", actual |-> "-", val |-> 0]

\* wrong_key! with the two sides exchanged
wrong_key_Swapped(x, y) == ErrEA("Jose::WrongKeyType", y, x)

\* the wrong_key! macro
wrong_key(x, y) == ErrEA("Jose::WrongKeyType", x, y)

(***************************************************************************)
(* Keys (biscuit::jwk::JWK): common.key_id, common.algorithm, and the      *)
(* AlgorithmParameters variant with its key material.                      *)
(***************************************************************************)
Key(kid, alg, kty, mat) == [kid |-> kid, alg |-> alg, kty |-> kty, mat |-> mat]

KeysOver(kids, algs, params) ==
    {Key(k, a, p[1], p[2]) : k \in kids, a \in algs, p \in params}

SeqsUpTo(S, n) == UNION {[1..k -> S] : k \in 0..n}

(***************************************************************************)
(* Claims of an identity token (the Claims trait: iss, sub, aud, azp, exp, *)
(* nonce, auth_time).  aud is biscuit's SingleOrMultiple.                  *)
(***************************************************************************)
Single(v) == [multi |-> FALSE, vals |-> {v}]
Multiple(vs) == [multi |-> TRUE, vals |-> vs]

Claims(iss, sub, aud, azp, exp, nonce, auth_time) ==
    [iss |-> iss, sub |-> sub, aud |-> aud, azp |-> azp, exp |-> exp,
     nonce |-> nonce, auth_time |-> auth_time]

\* what stands in the claims field of a token whose payload does not parse
NoClaims == Claims("-", "-", Single("-"), None, 0, None, None)

(***************************************************************************)
(* IdToken = biscuit::jws::Compact: Encoded (the raw three-part string) or *)
(* Decoded {header, payload}.  Of an Encoded token the model keeps whether *)
(* the header part parses and what it declares, the key material under     *)
(* which the signature verifies with the header's algorithm ("bad": none), *)
(* and whether the payload part parses and to which claims.                *)
(***************************************************************************)
Encoded(hdrOk, alg, kid, sig, payloadOk, claims) ==
    [state |-> "Encoded", hdrOk |-> hdrOk, alg |-> alg, kid |-> kid,
     sig |-> sig, payloadOk |-> payloadOk, claims |-> claims]

\* Compact::Decoded { header, payload }: the signature is not kept
Decoded(t) ==
    [state |-> "Decoded", hdrOk |-> TRUE, alg |-> t.alg, kid |-> t.kid,
     sig |-> "-", payloadOk |-> TRUE, claims |-> t.claims]

TokensOver(algs, kids, sigs, claimsSet) ==
    LET headers == {<<FALSE, "-", None>>}
                       \cup {<<TRUE, a, k>> : a \in algs, k \in kids}
        payloads == {<<FALSE, NoClaims>>} \cup {<<TRUE, c>> : c \in claimsSet}
    IN  {Encoded(h[1], h[2], h[3], s, p[1], p[2]) :
            h \in headers, s \in sigs, p \in payloads}

(***************************************************************************)
(* Compact::decode(secret, algorithm) of the library, on an Encoded token  *)
(* whose header parses: the header's algorithm must be the one asked for,  *)
(* the secret must be of the algorithm's kind, the signature must verify   *)
(* under the secret, and the payload must parse.                           *)
(***************************************************************************)
SecretFits(secretKind, alg) ==
    \/ secretKind = "Bytes" /\ alg \in HmacAlgs
    \/ secretKind = "RSAModulusExponent" /\ alg \in RsaAlgs

\* Compact::decode accepting any signature
CompactDecode_NoVerify(t, secretKind, mat, alg) ==
    IF t.alg # alg THEN Err("Jose::WrongAlgorithmHeader")
    ELSE IF ~SecretFits(secretKind, alg) THEN Err("Jose::InvalidKey")
    ELSE IF ~t.payloadOk THEN Err("Jose::PayloadError")
    ELSE Ok

CompactDecode(t, secretKind, mat, alg) ==
    IF t.alg # alg THEN Err("Jose::WrongAlgorithmHeader")
    ELSE IF ~SecretFits(secretKind, alg) THEN Err("Jose::InvalidKey")
    ELSE IF t.sig # mat THEN Err("Jose::InvalidSignature")
    ELSE IF ~t.payloadOk THEN Err("Jose::PayloadError")
    ELSE Ok

(***************************************************************************)
(* Client::decode_token, lines 164-224.                                    *)
(***************************************************************************)
\* JWKSet::find: the first key whose key_id is the given one
RECURSIVE Find(_, _)
Find(keys, kid) ==
    IF keys = <<>> THEN None
    ELSE IF Head(keys).kid = Some(kid) THEN Some(Head(keys))
    ELSE Find(Tail(keys), kid)

\* SelectKey taking the first key of a set of several, whatever its identifier
SelectKey_First(keys, t) ==
    IF keys = <<>> THEN [res |-> Err("Decode::EmptySet"), key |-> None]
    ELSE IF Len(keys) > 1 /\ t.kid = None
    THEN [res |-> Err("Decode::MissingKid"), key |-> None]
    ELSE [res |-> Ok, key |-> Some(keys[1])]

\* SelectKey looking a given identifier up in a set of one key as well
SelectKey_Strict(keys, t) ==
    IF keys = <<>> THEN [res |-> Err("Decode::EmptySet"), key |-> None]
    ELSE IF t.kid = None
    THEN IF Len(keys) > 1
         THEN [res |-> Err("Decode::MissingKid"), key |-> None]
         ELSE [res |-> Ok, key |-> Some(keys[1])]
    ELSE LET found == Find(keys, Unwrap(t.kid)) IN
         IF found = None
         THEN [res |-> ErrEA("Decode::MissingKey", "-", Unwrap(t.kid)),
               key |-> None]
         ELSE [res |-> Ok, key |-> found]

\* lines 178-185: the key to verify with, or the error
SelectKey(keys, t) ==
    IF Len(keys) > 1
    THEN IF t.kid = None THEN [res |-> Err("Decode::MissingKid"), key |-> None]
         ELSE LET found == Find(keys, Unwrap(t.kid)) IN
              IF found = None
              THEN [res |-> ErrEA("Decode::MissingKey", "-", Unwrap(t.kid)),
                    key |-> None]
              ELSE [res |-> Ok, key |-> found]
    ELSE IF keys = <<>> THEN [res |-> Err("Decode::EmptySet"), key |-> None]
         ELSE [res |-> Ok, key |-> Some(keys[1])]

\* CheckDeclaredAlg without the comparison with the header's algorithm
CheckDeclaredAlg_NoCompare(key, t) ==
    IF IsSome(key.alg) /\ Unwrap(key.alg).class # "Signature"
    THEN wrong_key(FmtSig(DefaultSignatureAlgorithm), FmtAlg(Unwrap(key.alg)))
    ELSE Ok

\* lines 187-195: the key's declared algorithm against the header's
CheckDeclaredAlg(key, t) ==
    IF IsSome(key.alg)
    THEN LET alg == Unwrap(key.alg) IN
         IF alg.class = "Signature"
         THEN IF t.alg # alg.name
              THEN wrong_key(FmtSig(alg.name), FmtSig(t.alg))
              ELSE Ok
         ELSE wrong_key(FmtSig(DefaultSignatureAlgorithm), FmtAlg(alg))
    ELSE Ok

\* Dispatch with the RSA arm also taking the HMAC algorithms, the key's
\* modulus serving as the secret bytes
Dispatch_Confused(key, t) ==
    LET alg == t.alg IN
    CASE key.kty \in {"OctetKey", "RSA"} /\ alg \in HmacAlgs ->
            [res |-> CompactDecode(t, "Bytes", key.mat, alg),
             calls |-> <<[kind |-> "Bytes", mat |-> key.mat, alg |-> alg]>>]
      [] key.kty = "RSA" /\ alg \in RsaAlgs ->
            [res |-> CompactDecode(t, "RSAModulusExponent", key.mat, alg),
             calls |-> <<[kind |-> "RSAModulusExponent", mat |-> key.mat,
                          alg |-> alg]>>]
      [] key.kty = "EllipticCurve" ->
            [res |-> Panic("not implemented: No support for EC keys yet"),
             calls |-> <<>>]
      [] OTHER ->
            [res |-> wrong_key(FmtStr("HS256 | HS384 | HS512"), FmtSig(alg)),
             calls |-> <<>>]

\* lines 197-223: [res, calls]: the outcome, and the calls of Compact::decode
\* made, each with the secret and the algorithm it was given
Dispatch(key, t) ==
    LET alg == t.alg IN
    CASE key.kty = "OctetKey" ->
            IF alg \in {"HS256", "HS384", "HS512"}
            THEN [res |-> CompactDecode(t, "Bytes", key.mat, alg),
                  calls |-> <<[kind |-> "Bytes", mat |-> key.mat, alg |-> alg]>>]
            ELSE [res |-> wrong_key(FmtStr("HS256 | HS384 | HS512"), FmtSig(alg)),
                  calls |-> <<>>]
      [] key.kty = "RSA" ->
            IF alg \in {"RS256", "RS384", "RS512"}
            THEN [res |-> CompactDecode(t, "RSAModulusExponent", key.mat, alg),
                  calls |-> <<[kind |-> "RSAModulusExponent", mat |-> key.mat,
                               alg |-> alg]>>]
            ELSE [res |-> wrong_key(FmtStr("RS256 | RS384 | RS512"), FmtSig(alg)),
                  calls |-> <<>>]
      [] key.kty = "EllipticCurve" ->
            [res |-> Panic("not implemented: No support for EC keys yet"),
             calls |-> <<>>]

\* the outcome of a decode_token call: the result, the token afterwards, the
\* key selected (if the call got that far) and the verifier calls made
DecodeOut(res, t, key, calls) ==
    [res |-> res, token |-> t, key |-> key, calls |-> calls]

\* Commit assigning the token whatever Compact::decode returned
Commit_Always(t, d, key) == DecodeOut(d.res, Decoded(t), key, d.calls)

\* lines 204 and 217, *token = token.decode(..)?: the token is assigned only
\* when Compact::decode returned Ok
Commit(t, d, key) ==
    DecodeOut(d.res, IF d.res = Ok THEN Decoded(t) ELSE t, key, d.calls)

\* lines 176-223: an Encoded token against a configured key set
DecodeWith(keys, t) ==
    IF ~t.hdrOk THEN DecodeOut(Err("Jose::DecodeError"), t, None, <<>>)
    ELSE LET sel == SelectKey(keys, t) IN
         IF sel.res # Ok THEN DecodeOut(sel.res, t, None, <<>>)
         ELSE LET key == Unwrap(sel.key)
                  chk == CheckDeclaredAlg(key, t)
              IN  IF chk # Ok THEN DecodeOut(chk, t, sel.key, <<>>)
                  ELSE Commit(t, Dispatch(key, t), sel.key)

\* decode_token treating an empty key set like an absent one
decode_token_EmptyAsAbsent(c, t) ==
    IF t.state = "Decoded" THEN DecodeOut(Ok, t, None, <<>>)
    ELSE IF c.jwks = None \/ c.jwks = Some(<<>>) THEN DecodeOut(Ok, t, None, <<>>)
    ELSE DecodeWith(Unwrap(c.jwks), t)

\* decode_token without the early return for a Decoded token
decode_token_NoEarlyReturn(c, t) ==
    IF c.jwks = None THEN DecodeOut(Ok, t, None, <<>>)
    ELSE DecodeWith(Unwrap(c.jwks), t)

decode_token(c, t) ==
    IF t.state = "Decoded" THEN DecodeOut(Ok, t, None, <<>>)
    ELSE IF c.jwks = None THEN DecodeOut(Ok, t, None, <<>>)
    ELSE DecodeWith(Unwrap(c.jwks), t)

(***************************************************************************)
(* Client::validate_token, lines 239-318.  clock is what Utc::now() gives  *)
(* at line 293.                                                            *)
(***************************************************************************)
\* the time the code was written, line 295
WrittenAt == 1504758600

\* SingleOrMultiple::contains
Contains(aud, v) == v \in aud.vals

\* lines 247-251
CheckIssuer(c, claims) ==
    IF claims.iss # c.issuer
    THEN ErrEA("Validation::Mismatch::Issuer", c.issuer, claims.iss)
    ELSE Ok

\* CheckNonce accepting a token that carries a nonce when none is expected
CheckNonce_Lenient(nonce, claims) ==
    IF IsSome(nonce)
    THEN IF IsSome(claims.nonce)
         THEN IF Unwrap(nonce) # Unwrap(claims.nonce)
              THEN ErrEA("Validation::Mismatch::Nonce",
                         Unwrap(nonce), Unwrap(claims.nonce))
              ELSE Ok
         ELSE Err("Validation::Missing::Nonce")
    ELSE Ok

\* lines 253-271
CheckNonce(nonce, claims) ==
    IF IsSome(nonce)
    THEN IF IsSome(claims.nonce)
         THEN IF Unwrap(nonce) # Unwrap(claims.nonce)
              THEN ErrEA("Validation::Mismatch::Nonce",
                         Unwrap(nonce), Unwrap(claims.nonce))
              ELSE Ok
         ELSE Err("Validation::Missing::Nonce")
    ELSE IF IsSome(claims.nonce)
         THEN Err("Validation::Missing::Nonce")
         ELSE Ok

\* CheckAudience comparing only a single-valued audience
CheckAudience_SingleOnly(c, claims) ==
    IF ~claims.aud.multi /\ ~Contains(claims.aud, c.client_id)
    THEN Err("Validation::Missing::Audience")
    ELSE Ok

\* lines 273-275
CheckAudience(c, claims) ==
    IF ~Contains(claims.aud, c.client_id)
    THEN Err("Validation::Missing::Audience")
    ELSE Ok

\* CheckAuthorizedParty comparing the authorized party only when the
\* audience is multi-valued
CheckAuthorizedParty_MultiOnly(c, claims) ==
    IF claims.aud.multi /\ claims.azp = None
    THEN Err("Validation::Missing::AuthorizedParty")
    ELSE IF claims.aud.multi /\ IsSome(claims.azp)
            /\ Unwrap(claims.azp) # c.client_id
         THEN ErrEA("Validation::Mismatch::AuthorizedParty",
                    c.client_id, Unwrap(claims.azp))
         ELSE Ok

\* lines 276-291
CheckAuthorizedParty(c, claims) ==
    IF claims.aud.multi /\ claims.azp = None
    THEN Err("Validation::Missing::AuthorizedParty")
    ELSE IF IsSome(claims.azp) /\ Unwrap(claims.azp) # c.client_id
         THEN ErrEA("Validation::Mismatch::AuthorizedParty",
                    c.client_id, Unwrap(claims.azp))
         ELSE Ok

\* lines 293-297
CheckClock(clock) ==
    IF clock < WrittenAt
    THEN Panic("chrono::Utc::now() can never be before this was written!")
    ELSE Ok

\* CheckExpiry accepting a token during the second of its expiry
CheckExpiry_Exclusive(claims, clock) ==
    IF claims.exp < clock
    THEN ErrVal("Validation::Expired::Expires", claims.exp)
    ELSE Ok

\* lines 298-303
CheckExpiry(claims, clock) ==
    IF claims.exp <= clock
    THEN ErrVal("Validation::Expired::Expires", claims.exp)
    ELSE Ok

\* CheckMaxAge refusing an authentication time later than the clock
CheckMaxAge_RejectsFuture(claims, max_age, clock) ==
    IF IsSome(max_age)
    THEN IF IsSome(claims.auth_time)
         THEN LET age == clock - Unwrap(claims.auth_time) IN
              IF age >= Unwrap(max_age) \/ age < 0
              THEN ErrVal("Validation::Expired::MaxAge", age)
              ELSE Ok
         ELSE Err("Validation::Missing::AuthTime")
    ELSE Ok

\* CheckMaxAge accepting an age equal to max_age
CheckMaxAge_Exclusive(claims, max_age, clock) ==
    IF IsSome(max_age)
    THEN IF IsSome(claims.auth_time)
         THEN LET age == clock - Unwrap(claims.auth_time) IN
              IF age > Unwrap(max_age)
              THEN ErrVal("Validation::Expired::MaxAge", age)
              ELSE Ok
         ELSE Err("Validation::Missing::AuthTime")
    ELSE Ok

\* lines 305-315
CheckMaxAge(claims, max_age, clock) ==
    IF IsSome(max_age)
    THEN IF IsSome(claims.auth_time)
         THEN LET age == clock - Unwrap(claims.auth_time) IN
              IF age >= Unwrap(max_age)
              THEN ErrVal("Validation::Expired::MaxAge", age)
              ELSE Ok
         ELSE Err("Validation::Missing::AuthTime")
    ELSE Ok

\* the first outcome of a sequence of checks that is not Ok
RECURSIVE FirstFailure(_)
FirstFailure(rs) ==
    IF rs = <<>> THEN Ok
    ELSE IF Head(rs) # Ok THEN Head(rs)
    ELSE FirstFailure(Tail(rs))

\* Payload handing out the claims of an Encoded token
Payload_Unverified(t) == Ok

\* line 245: Compact::payload() is an error on an Encoded token
Payload(t) ==
    IF t.state = "Decoded" THEN Ok ELSE Err("Jose::UnsupportedOperation")

\* validate_token checking the audience before the issuer and the nonce
validate_token_AudienceFirst(c, t, nonce, max_age, clock) ==
    IF Payload(t) # Ok THEN Payload(t)
    ELSE LET claims == t.claims IN
         FirstFailure(<<CheckAudience(c, claims),
                        CheckIssuer(c, claims),
                        CheckNonce(nonce, claims),
                        CheckAuthorizedParty(c, claims),
                        CheckClock(clock),
                        CheckExpiry(claims, clock),
                        CheckMaxAge(claims, max_age, clock)>>)

\* validate_token reading the clock before any claim is checked
validate_token_ClockFirst(c, t, nonce, max_age, clock) ==
    IF Payload(t) # Ok THEN Payload(t)
    ELSE LET claims == t.claims IN
         FirstFailure(<<CheckClock(clock),
                        CheckIssuer(c, claims),
                        CheckNonce(nonce, claims),
                        CheckAudience(c, claims),
                        CheckAuthorizedParty(c, claims),
                        CheckExpiry(claims, clock),
                        CheckMaxAge(claims, max_age, clock)>>)

validate_token(c, t, nonce, max_age, clock) ==
    IF Payload(t) # Ok THEN Payload(t)
    ELSE LET claims == t.claims IN
         FirstFailure(<<CheckIssuer(c, claims),
                        CheckNonce(nonce, claims),
                        CheckAudience(c, claims),
                        CheckAuthorizedParty(c, claims),
                        CheckClock(clock),
                        CheckExpiry(claims, clock),
                        CheckMaxAge(claims, max_age, clock)>>)

(***************************************************************************)
(* Client::authenticate, lines 141-154.  resp is what request_token gave:  *)
(* an error, or a Bearer with or without an identity token string.         *)
(***************************************************************************)
ExchangeError == [ok |-> FALSE, id_token |-> None]
Bearer(id_token) == [ok |-> TRUE, id_token |-> id_token]

\* [res, id_token, steps, dec]: the result, the identity token of the Token
\* returned (None when none is returned or it holds none), the calls made in
\* order, and the outcome of the decode_token call when one was made
AuthOut(res, id_token, steps, dec) ==
    [res |-> res, id_token |-> id_token, steps |-> steps, dec |-> dec]

\* authenticate returning the decoded token whatever validate_token said
authenticate_IgnoresValidation(c, resp, nonce, max_age, clock) ==
    IF ~resp.ok
    THEN AuthOut(Err("ClientError"), None, <<"request_token">>, None)
    ELSE IF resp.id_token = None
    THEN AuthOut(Ok, None, <<"request_token">>, None)
    ELSE LET d == decode_token(c, Unwrap(resp.id_token)) IN
         IF d.res # Ok
         THEN AuthOut(d.res, None, <<"request_token", "decode_token">>, Some(d))
         ELSE AuthOut(Ok, Some(d.token),
                      <<"request_token", "decode_token", "validate_token">>,
                      Some(d))

authenticate(c, resp, nonce, max_age, clock) ==
    IF ~resp.ok
    THEN AuthOut(Err("ClientError"), None, <<"request_token">>, None)
    ELSE IF resp.id_token = None
    THEN AuthOut(Ok, None, <<"request_token">>, None)
    ELSE LET d == decode_token(c, Unwrap(resp.id_token)) IN
         IF d.res # Ok
         THEN AuthOut(d.res, None, <<"request_token", "decode_token">>, Some(d))
         ELSE LET v == validate_token(c, d.token, nonce, max_age, clock) IN
              AuthOut(v, IF v = Ok THEN Some(d.token) ELSE None,
                      <<"request_token", "decode_token", "validate_token">>,
                      Some(d))


(***************************************************************************)
(* The state: the client as constructed (Client::new, lines 535-552); the  *)
(* nonce and max_age of the Options the caller built the authorization URL *)
(* with and keeps for authentication (lines 85-87); the host clock; the    *)
(* identity token string the provider hands out at the token exchange      *)
(* (raw); the caller's IdToken instance (token); a record of the last call *)
(* made and its outcome (last); the Bearer the caller holds for refreshing *)
(* (bearer); and the decode_token calls other callers have in flight on    *)
(* tokens of their own (procs).                                            *)
(***************************************************************************)
NewClient(client_id, issuer, jwks) ==
    [client_id |-> client_id, issuer |-> issuer, jwks |-> jwks]

Options(nonce, max_age) == [nonce |-> nonce, max_age |-> max_age]

Call(op, res, pre, key, calls, clock, resp, id_token, steps) ==
    [op |-> op, res |-> res, pre |-> pre, key |-> key, calls |-> calls,
     clock |-> clock, resp |-> resp, id_token |-> id_token, steps |-> steps]

NoCall(t) == Call("new", Ok, t, None, <<>>, 0, None, None, <<>>)

\* the clock runs from just before WrittenAt to MaxSkew seconds after it
MaxSkew == 1
Times == (WrittenAt - 1)..(WrittenAt + MaxSkew)
\* a time after every reading of the clock
Future == WrittenAt + MaxSkew + 1

ClientId == "client1"
Issuer == "https://issuer"

(***************************************************************************)
(* The operations.                                                         *)
(***************************************************************************)
DecodeToken ==
    LET out == decode_token(client, token) IN
    /\ token' = out.token
    /\ last' = Call("decode_token", out.res, token, out.key, out.calls,
                    0, None, None, <<>>)
    /\ UNCHANGED <<client, options, now, raw, bearer, procs>>

\* ValidateToken clearing the expected nonce once it has been compared
ValidateToken_ConsumesNonce ==
    /\ last' = Call("validate_token",
                    validate_token(client, token, options.nonce,
                                   options.max_age, now),
                    token, None, <<>>, now, None, None, <<>>)
    /\ options' = Options(None, options.max_age)
    /\ UNCHANGED <<client, now, raw, token, bearer, procs>>

ValidateToken ==
    /\ last' = Call("validate_token",
                    validate_token(client, token, options.nonce,
                                   options.max_age, now),
                    token, None, <<>>, now, None, None, <<>>)
    /\ UNCHANGED <<client, options, now, raw, token, bearer, procs>>

Authenticate ==
    \E resp \in {ExchangeError, Bearer(None), Bearer(Some(raw))} :
        LET out == authenticate(client, resp, options.nonce, options.max_age, now)
        IN  /\ token' = IF IsSome(out.id_token) THEN Unwrap(out.id_token)
                        ELSE token
            /\ last' = Call("authenticate", out.res, token,
                            IF IsSome(out.dec) THEN Unwrap(out.dec).key ELSE None,
                            IF IsSome(out.dec) THEN Unwrap(out.dec).calls
                            ELSE <<>>,
                            now, Some(resp), out.id_token, out.steps)
            /\ UNCHANGED <<client, options, now, raw, bearer, procs>>

\* the host clock advances
Tick ==
    /\ now < WrittenAt + MaxSkew
    /\ now' = now + 1
    /\ UNCHANGED <<client, options, raw, token, last, bearer, procs>>

(***************************************************************************)
(* Key sets and tokens of the decoding specification: every combination of *)
(* key identifier, declared algorithm and key variant, in key sets of up   *)
(* to MaxKeys keys, with every header.                                     *)
(***************************************************************************)
\* key identifiers of token headers, and of keys: a key may carry none
KeyIds == {"k1", "k2"}
KeyKeyIds == {None, Some("k1")}
DeclaredAlgs ==
    {None, Some(SigAlg("HS256")), Some(SigAlg("RS256")), Some(KeyMgmtAlg("A128KW"))}
KeyParams == {<<"OctetKey", "s1">>, <<"RSA", "n1">>, <<"EllipticCurve", "p1">>}
HeaderAlgs == {"HS256", "HS512", "RS256", "ES256"}
Signatures == {"bad", "s1", "n1"}

GoodClaims == Claims(Issuer, "sub1", Single(ClientId), None, Future, None, None)

InitDecode ==
    /\ client \in {NewClient(ClientId, Issuer, j) :
                     j \in OptionOf(SeqsUpTo(KeysOver(KeyKeyIds, DeclaredAlgs,
                                                      KeyParams), MaxKeys))}
    /\ options = Options(None, None)
    /\ now = WrittenAt
    /\ raw \in TokensOver(HeaderAlgs, OptionOf(KeyIds), Signatures, {GoodClaims})
    /\ token = raw
    /\ last = NoCall(raw)
    /\ bearer = None
    /\ procs = <<>>

NextDecode == DecodeToken

SpecDecode == InitDecode /\ [][NextDecode]_vars

(***************************************************************************)
(* Claims and tokens of the validation specification: one symmetric key,   *)
(* correctly signed tokens, and every combination of claim values, of      *)
(* nonce and max_age passed, and of clock readings.                        *)
(***************************************************************************)
Audiences ==
    {Single(ClientId), Single("other"), Multiple({ClientId}),
     Multiple({ClientId, "other"}), Multiple({"other", "third"})}

AllClaims ==
    {Claims(iss, "sub1", aud, azp, exp, nonce, auth_time) :
        iss \in {Issuer, "https://evil"},
        aud \in Audiences,
        azp \in OptionOf({ClientId, "other"}),
        exp \in {WrittenAt - 1, WrittenAt + 1, Future},
        nonce \in OptionOf({"n1"}),
        auth_time \in OptionOf({WrittenAt - 1, WrittenAt, Future})}

\* the largest max_age passed
MaxAgeBound == 1
AllOptions ==
    {Options(n, m) : n \in OptionOf({"n1", "n2"}), m \in OptionOf(0..MaxAgeBound)}

TheKey == Key(Some("k1"), Some(SigAlg("HS256")), "OctetKey", "s1")

InitValidate ==
    /\ client = NewClient(ClientId, Issuer, Some(<<TheKey>>))
    /\ options \in AllOptions
    /\ now \in Times
    /\ raw \in {Encoded(TRUE, "HS256", Some("k1"), "s1", TRUE, c) : c \in AllClaims}
    /\ token = raw
    /\ last = NoCall(raw)
    /\ bearer = None
    /\ procs = <<>>

NextValidate == DecodeToken \/ ValidateToken

SpecValidate == InitValidate /\ [][NextValidate]_vars

(***************************************************************************)
(* The whole client: any key set of up to MaxKeys keys over a symmetric    *)
(* and an RSA key, or none; any token, Encoded as received or already      *)
(* Decoded (by the caller, or by another client); the operations in any    *)
(* order, as the clock advances.                                           *)
(***************************************************************************)
SessionKeys ==
    KeysOver({Some("k1"), Some("k2")}, {None},
             {<<"OctetKey", "s1">>, <<"RSA", "n1">>})

SessionClaims ==
    {GoodClaims,
     Claims("https://evil", "sub1", Single(ClientId), None, Future, None, None),
     Claims(Issuer, "sub1", Multiple({ClientId, "other"}), Some(ClientId),
            WrittenAt + 1, Some("n1"), Some(WrittenAt))}

SessionOptions == {Options(n, m) : n \in OptionOf({"n1"}), m \in OptionOf({1})}

Init ==
    /\ client \in {NewClient(ClientId, Issuer, j) :
                     j \in OptionOf(SeqsUpTo(SessionKeys, MaxKeys))}
    /\ options \in SessionOptions
    /\ now \in Times
    /\ raw \in TokensOver({"HS256"}, {None, Some("k1")}, {"bad", "s1"},
                          SessionClaims)
    /\ token \in {raw} \cup {Decoded(t) : t \in {r \in {raw} : r.hdrOk /\ r.payloadOk}}
    /\ last = NoCall(token)
    /\ bearer = None
    /\ procs = <<>>

Next == DecodeToken \/ ValidateToken \/ Authenticate \/ Tick

Spec == Init /\ [][Next]_vars

(***************************************************************************)
(* Properties of decode_token.  They speak of the last call: last.pre is   *)
(* the token before it, token the token after it, last.key the key it      *)
(* selected and last.calls the verifier calls it made.                     *)
(***************************************************************************)
\* the last call was decode_token on an Encoded token
DecodedEncoded == last.op = "decode_token" /\ last.pre.state = "Encoded"

\* the last call was decode_token on an Encoded token and it selected a key
SelectedKey == DecodedEncoded /\ IsSome(last.key)

\* the key declares no algorithm, or the signature algorithm of the header
DeclaredAlgAgrees(k, t) == k.alg = None \/ k.alg = Some(SigAlg(t.alg))

\* C1: when the selected key declares a signature algorithm A and the header
\* declares B # A, decode_token fails with WrongKeyType(expected A, actual B),
\* and the same whatever key material the signature verifies under; when the
\* key declares an algorithm that is no signature algorithm, it fails with
\* WrongKeyType; in both cases no verifier call is made and the token is left
\* as it was.
C1_DeclaredAlgBeforeVerify ==
    SelectedKey =>
        LET k == Unwrap(last.key)
            t == last.pre
        IN  /\ (IsSome(k.alg) /\ Unwrap(k.alg).class = "Signature"
                    /\ Unwrap(k.alg).name # t.alg)
                => /\ last.res = ErrEA("Jose::WrongKeyType",
                                       Unwrap(k.alg).name, t.alg)
                   /\ last.calls = <<>>
                   /\ token = t
                   /\ \A s \in Signatures :
                        LET o == decode_token(client, [t EXCEPT !.sig = s])
                        IN  o.res = last.res /\ o.calls = <<>>
            /\ (IsSome(k.alg) /\ Unwrap(k.alg).class # "Signature")
                => /\ last.res.err = "Jose::WrongKeyType"
                   /\ last.calls = <<>>
                   /\ token = t

\* C1 witness: the confusion attack.  An RSA key declaring RS256, a token
\* whose header says HS256 and whose signature is an HMAC under the public
\* key's bytes: rejected with WrongKeyType(RS256, HS256), no verifier call.
C1_Witness ==
    /\ SelectedKey
    /\ Unwrap(last.key).alg = Some(SigAlg("RS256"))
    /\ Unwrap(last.key).kty = "RSA"
    /\ last.pre.alg = "HS256"
    /\ last.pre.sig = Unwrap(last.key).mat
    /\ last.res = ErrEA("Jose::WrongKeyType", "RS256", "HS256")
    /\ last.calls = <<>>

\* C2 as stated: with a symmetric key selected the verifier is called iff the
\* header's algorithm is an HMAC one, with an RSA key iff it is an RSA one,
\* and any other header algorithm fails with WrongKeyType.
C2_Original ==
    SelectedKey =>
        LET k == Unwrap(last.key)
            t == last.pre
        IN  /\ k.kty = "OctetKey" =>
                /\ (last.calls # <<>>) <=> (t.alg \in HmacAlgs)
                /\ t.alg \notin HmacAlgs => last.res.err = "Jose::WrongKeyType"
            /\ k.kty = "RSA" =>
                /\ (last.calls # <<>>) <=> (t.alg \in RsaAlgs)
                /\ t.alg \notin RsaAlgs => last.res.err = "Jose::WrongKeyType"

\* C2, amended: the same, for a key whose declared algorithm (if any) is the
\* header's; and whatever the key declares, the verifier is called at most
\* once, with an HMAC algorithm only on a symmetric key's bytes and with an
\* RSA algorithm only on an RSA key's modulus and exponent, and a token is
\* Decoded only by such a call.
C2_Dispatch ==
    SelectedKey =>
        LET k == Unwrap(last.key)
            t == last.pre
        IN  /\ (k.kty = "OctetKey" /\ DeclaredAlgAgrees(k, t)) =>
                ((last.calls # <<>>) <=> (t.alg \in HmacAlgs))
            /\ (k.kty = "RSA" /\ DeclaredAlgAgrees(k, t)) =>
                ((last.calls # <<>>) <=> (t.alg \in RsaAlgs))
            /\ (\/ k.kty = "OctetKey" /\ t.alg \notin HmacAlgs
                \/ k.kty = "RSA" /\ t.alg \notin RsaAlgs) =>
                /\ last.res.err = "Jose::WrongKeyType"
                /\ last.calls = <<>>
                /\ token = t
            /\ \A i \in 1..Len(last.calls) :
                /\ last.calls[i].alg = t.alg
                /\ last.calls[i].mat = k.mat
                /\ \/ k.kty = "OctetKey" /\ last.calls[i].kind = "Bytes"
                        /\ last.calls[i].alg \in HmacAlgs
                   \/ k.kty = "RSA" /\ last.calls[i].kind = "RSAModulusExponent"
                        /\ last.calls[i].alg \in RsaAlgs
            /\ token.state = "Decoded" => Len(last.calls) = 1

\* C2 witness: a symmetric key declaring nothing and a header saying RS256:
\* WrongKeyType, no verifier call, although the signature would verify.
C2_Witness ==
    /\ SelectedKey
    /\ Unwrap(last.key).kty = "OctetKey"
    /\ Unwrap(last.key).alg = None
    /\ last.pre.alg = "RS256"
    /\ last.pre.sig = Unwrap(last.key).mat
    /\ last.res = ErrEA("Jose::WrongKeyType", FmtStr("HS256 | HS384 | HS512"),
                        "RS256")
    /\ last.calls = <<>>
    /\ token = last.pre

\* C6: a decode_token call on an Encoded token that does not return Ok
\* leaves the token as it was; the token is Decoded after the call only if
\* the call returned Ok after one verifier call, made with the selected
\* key's material and the header's algorithm, under which the signature
\* verifies; and then it carries the header and claims of the token decoded.
C6_FailureLeavesEncoded ==
    DecodedEncoded =>
        /\ last.res # Ok => token = last.pre
        /\ token.state = "Decoded" =>
            /\ last.res = Ok
            /\ IsSome(last.key)
            /\ Len(last.calls) = 1
            /\ last.calls[1].mat = Unwrap(last.key).mat
            /\ last.calls[1].alg = last.pre.alg
            /\ last.pre.sig = Unwrap(last.key).mat
            /\ last.pre.payloadOk
            /\ token = Decoded(last.pre)

\* C6 witness: a signature that does not verify under the selected key; the
\* verifier was called, the call failed, the token is as before.
C6_Witness ==
    /\ DecodedEncoded
    /\ IsSome(last.key)
    /\ last.calls # <<>>
    /\ last.pre.sig # Unwrap(last.key).mat
    /\ last.res = Err("Jose::InvalidSignature")
    /\ token = last.pre
    /\ token.state = "Encoded"

\* the keys of the client's key set (none when it has no key set)
ClientKeys == IF client.jwks = None THEN <<>> ELSE Unwrap(client.jwks)

\* C7: with more than one key in the key set and a readable header, a header
\* without key identifier fails with Decode::MissingKid, a key identifier
\* that no key of the set carries fails with Decode::MissingKey(id), and
\* otherwise the key selected is a key of the set whose identifier is the
\* header's.
C7_MultiKeyNeedsKid ==
    (DecodedEncoded /\ Len(ClientKeys) > 1 /\ last.pre.hdrOk) =>
        LET t == last.pre
            matching == {i \in 1..Len(ClientKeys) : ClientKeys[i].kid = t.kid}
        IN  IF t.kid = None
            THEN last.res = Err("Decode::MissingKid") /\ last.key = None
            ELSE IF matching = {}
            THEN /\ last.res = ErrEA("Decode::MissingKey", "-", Unwrap(t.kid))
                 /\ last.key = None
            ELSE /\ IsSome(last.key)
                 /\ Unwrap(last.key).kid = t.kid
                 /\ \E i \in matching : ClientKeys[i] = Unwrap(last.key)

\* C7 witness: two keys, the first without the header's identifier, the
\* second with it: the second is selected and the token is Decoded with it.
C7_Witness ==
    /\ DecodedEncoded
    /\ Len(ClientKeys) = 2
    /\ ClientKeys[1].kid # last.pre.kid
    /\ ClientKeys[1].mat # ClientKeys[2].mat
    /\ last.key = Some(ClientKeys[2])
    /\ last.res = Ok
    /\ token.state = "Decoded"

\* C8: with exactly one key in the key set, that key is the one selected,
\* and the call's result does not depend on the header's key identifier:
\* the same token with any other key identifier, or none, gets the same
\* result and ends in the same state; a token signed under the key with an
\* algorithm of the key's family that the key's declaration admits, and
\* whose payload parses, is Decoded.
C8_SingleKeyFallback ==
    (DecodedEncoded /\ Len(ClientKeys) = 1 /\ last.pre.hdrOk) =>
        LET t == last.pre
            k == ClientKeys[1]
        IN  /\ last.key = Some(k)
            /\ \A kid \in OptionOf(KeyIds) :
                LET o == decode_token(client, [t EXCEPT !.kid = kid])
                IN  /\ o.res = last.res
                    /\ o.key = last.key
                    /\ o.token.state = token.state
            /\ (/\ t.sig = k.mat
                /\ t.payloadOk
                /\ DeclaredAlgAgrees(k, t)
                /\ \/ k.kty = "OctetKey" /\ t.alg \in HmacAlgs
                   \/ k.kty = "RSA" /\ t.alg \in RsaAlgs)
                => last.res = Ok /\ token = Decoded(t)

\* C8 witness: one key with identifier k1, a correctly signed token whose
\* header names k2: Decoded.
C8_Witness ==
    /\ DecodedEncoded
    /\ Len(ClientKeys) = 1
    /\ ClientKeys[1].kid = Some("k1")
    /\ last.pre.kid = Some("k2")
    /\ last.res = Ok
    /\ token.state = "Decoded"

\* C9: with a key set that holds no key, decode_token on an Encoded token
\* with a readable header fails with Decode::EmptySet; with no key set at
\* all it returns Ok.
C9_EmptyKeySet ==
    DecodedEncoded =>
        /\ (client.jwks = Some(<<>>) /\ last.pre.hdrOk) =>
            last.res = Err("Decode::EmptySet") /\ token = last.pre
        /\ client.jwks = None => last.res = Ok

\* C9 witness: an empty key set, and a token that one would otherwise accept
C9_Witness ==
    /\ DecodedEncoded
    /\ client.jwks = Some(<<>>)
    /\ last.pre.hdrOk /\ last.pre.payloadOk
    /\ last.res = Err("Decode::EmptySet")
    /\ token.state = "Encoded"

\* C10 as stated: when the key selected is an elliptic-curve key whose
\* declared algorithm (if any) is the header's, decode_token returns an
\* error that is neither WrongKeyType nor a signature failure, and the
\* token is left Encoded.
C10_EllipticCurveError ==
    (SelectedKey /\ Unwrap(last.key).kty = "EllipticCurve"
        /\ DeclaredAlgAgrees(Unwrap(last.key), last.pre)) =>
        /\ last.res.kind = "Err"
        /\ last.res.err \notin {"Jose::WrongKeyType", "Jose::InvalidSignature"}
        /\ last.calls = <<>>
        /\ token = last.pre

(***************************************************************************)
(* Properties of validate_token.  The six rules, as the specification      *)
(* states them, over the claims of the token validated, the nonce and      *)
(* max_age passed and the clock reading of the call.                       *)
(***************************************************************************)
\* the last call was validate_token on a Decoded token
ValidatedDecoded == last.op = "validate_token" /\ last.pre.state = "Decoded"

RuleViolated(i, cl, clock) ==
    CASE i = 1 -> cl.iss # client.issuer
      [] i = 2 -> cl.nonce # options.nonce
      [] i = 3 -> client.client_id \notin cl.aud.vals
      [] i = 4 -> \/ cl.aud.multi /\ cl.azp = None
                  \/ cl.azp # None /\ cl.azp # Some(client.client_id)
      [] i = 5 -> clock >= cl.exp
      [] i = 6 -> /\ options.max_age # None
                  /\ \/ cl.auth_time = None
                     \/ clock - Unwrap(cl.auth_time) >= Unwrap(options.max_age)

\* the rule an error belongs to; 0 for Ok, 7 for anything else
RuleOf(res) ==
    CASE res = Ok -> 0
      [] res.kind = "Err" /\ res.err = "Validation::Mismatch::Issuer" -> 1
      [] res.kind = "Err" /\ res.err \in {"Validation::Mismatch::Nonce",
                                         "Validation::Missing::Nonce"} -> 2
      [] res.kind = "Err" /\ res.err = "Validation::Missing::Audience" -> 3
      [] res.kind = "Err" /\ res.err \in {"Validation::Missing::AuthorizedParty",
                                         "Validation::Mismatch::AuthorizedParty"} -> 4
      [] res.kind = "Err" /\ res.err = "Validation::Expired::Expires" -> 5
      [] res.kind = "Err" /\ res.err \in {"Validation::Missing::AuthTime",
                                         "Validation::Expired::MaxAge"} -> 6
      [] OTHER -> 7

\* the earliest rule violated, 0 when none is
EarliestViolated(cl, clock) ==
    LET bad == {i \in 1..6 : RuleViolated(i, cl, clock)}
    IN  IF bad = {} THEN 0 ELSE CHOOSE i \in bad : \A j \in bad : i <= j

\* C3 as stated: validate_token on a Decoded token returns the error of the
\* earliest rule violated in the order issuer, nonce, audience,
\* authorized-party, expiry, max-age (Ok when none is), and an issuer
\* mismatch gives Mismatch::Issuer{expected, actual}.
C3_Original ==
    ValidatedDecoded =>
        /\ RuleOf(last.res) = EarliestViolated(last.pre.claims, last.clock)
        /\ RuleViolated(1, last.pre.claims, last.clock) =>
            last.res = ErrEA("Validation::Mismatch::Issuer", client.issuer,
                             last.pre.claims.iss)

\* C3, amended: the same when the clock reads WrittenAt or later, or one of
\* the first four rules is violated; with an earlier clock and the first
\* four rules satisfied the call panics, whatever expiry and
\* authentication time are.
C3_FirstViolatedRuleWins ==
    ValidatedDecoded =>
        LET cl == last.pre.claims
            first == EarliestViolated(cl, last.clock)
        IN  /\ (last.clock >= WrittenAt \/ first \in 1..4) =>
                RuleOf(last.res) = first
            /\ (last.clock < WrittenAt /\ first \notin 1..4) =>
                last.res.kind = "Panic"
            /\ RuleViolated(1, cl, last.clock) =>
                last.res = ErrEA("Validation::Mismatch::Issuer", client.issuer,
                                 cl.iss)

\* C3 witness: a token violating the issuer, nonce, audience,
\* authorized-party and expiry rules at once gets the issuer error.
C3_Witness ==
    /\ ValidatedDecoded
    /\ last.clock >= WrittenAt
    /\ \A i \in 1..5 : RuleViolated(i, last.pre.claims, last.clock)
    /\ last.res = ErrEA("Validation::Mismatch::Issuer", Issuer, "https://evil")

(***************************************************************************)
(* Properties of the token's two states.                                   *)
(***************************************************************************)
\* C4: decode_token on a Decoded token returns Ok, selects no key, makes no
\* verifier call and leaves the token as it is, whatever the key set; and
\* no step takes the token from Decoded to Encoded.
C4_DecodeIdempotentOneWay ==
    [][/\ token.state = "Decoded" => token'.state = "Decoded"
       /\ (last'.op = "decode_token" /\ last'.pre.state = "Decoded") =>
            /\ last'.res = Ok
            /\ token' = last'.pre
            /\ last'.key = None
            /\ last'.calls = <<>>]_vars

\* C4 witness: a Decoded token handed to a client whose key set is empty
C4_Witness ==
    /\ last.op = "decode_token"
    /\ last.pre.state = "Decoded"
    /\ client.jwks = Some(<<>>)
    /\ last.res = Ok
    /\ token = last.pre

\* the exchange of the last authenticate call delivered an identity token
DeliveredIdToken(l) ==
    /\ l.op = "authenticate"
    /\ IsSome(l.resp)
    /\ Unwrap(l.resp).ok
    /\ IsSome(Unwrap(l.resp).id_token)

\* C5: for a client without key set, decode_token on an Encoded token
\* returns Ok without a verifier call and leaves it Encoded; no step makes
\* an Encoded token Decoded; validate_token on an Encoded token returns the
\* error of reading the payload, whatever the claims and the clock; and
\* authenticate, when the exchange delivers an identity token, returns that
\* error and no token.
C5_NoKeySetNeverTrusts ==
    [][client.jwks = None =>
        /\ token.state = "Encoded" => token'.state = "Encoded"
        /\ (last'.op = "decode_token" /\ last'.pre.state = "Encoded") =>
            /\ last'.res = Ok
            /\ last'.calls = <<>>
            /\ token' = last'.pre
        /\ (last'.op = "validate_token" /\ last'.pre.state = "Encoded") =>
            last'.res = Err("Jose::UnsupportedOperation")
        /\ DeliveredIdToken(last') =>
            /\ last'.res = Err("Jose::UnsupportedOperation")
            /\ last'.res.kind # "Ok"
            /\ last'.id_token = None]_vars

\* C5 witness: no key set, an identity token whose claims satisfy every
\* rule: authenticate decodes (Ok, still Encoded), then fails in validate.
C5_Witness ==
    /\ client.jwks = None
    /\ DeliveredIdToken(last)
    /\ raw.hdrOk /\ raw.payloadOk /\ raw.claims = GoodClaims
    /\ options = Options(None, None)
    /\ last.clock >= WrittenAt
    /\ last.steps = <<"request_token", "decode_token", "validate_token">>
    /\ last.res = Err("Jose::UnsupportedOperation")

(***************************************************************************)
(* Panics.                                                                 *)
(***************************************************************************)
\* C11 as stated: a decode_token or validate_token call ends in Ok or in an
\* error value, or else in the panic of the clock check of validate_token.
C11_OnlyClockPanics ==
    (last.op \in {"decode_token", "validate_token"} /\ last.res.kind = "Panic") =>
        /\ last.op = "validate_token"
        /\ last.clock < WrittenAt
        /\ last.res = CheckClock(last.clock)

(***************************************************************************)
(* The single rules of validate_token.                                     *)
(***************************************************************************)
\* rules 1..n are satisfied by the claims validated by the last call
RulesHold(n) ==
    \A i \in 1..n : ~RuleViolated(i, last.pre.claims, last.clock)

\* C12: when the issuer matches, a nonce expected and a different one in the
\* claims give Mismatch::Nonce{expected, actual}; a nonce expected and none
\* in the claims, or none expected and one in the claims, give
\* Missing::Nonce; and the result is a nonce error only in these cases.
C12_NonceSymmetric ==
    (ValidatedDecoded /\ RulesHold(1)) =>
        LET e == options.nonce
            a == last.pre.claims.nonce
        IN  /\ (IsSome(e) /\ IsSome(a) /\ e # a) =>
                last.res = ErrEA("Validation::Mismatch::Nonce", Unwrap(e),
                                 Unwrap(a))
            /\ (IsSome(e) /\ a = None) =>
                last.res = Err("Validation::Missing::Nonce")
            /\ (e = None /\ IsSome(a)) =>
                last.res = Err("Validation::Missing::Nonce")
            /\ (RuleOf(last.res) # 2) <=>
                ((e = None /\ a = None) \/ (IsSome(e) /\ e = a))

\* C12 witness: no nonce expected, a nonce in the claims: Missing::Nonce
C12_Witness ==
    /\ ValidatedDecoded
    /\ RulesHold(1)
    /\ options.nonce = None
    /\ last.pre.claims.nonce = Some("n1")
    /\ last.res = Err("Validation::Missing::Nonce")

\* C13: when issuer and nonce pass, the result is Missing::Audience exactly
\* when client_id is not among the values of the audience, single or
\* multiple, whatever the authorized party, the expiry, the authentication
\* time and the clock are.
C13_AudienceMembership ==
    (ValidatedDecoded /\ RulesHold(2)) =>
        LET aud == last.pre.claims.aud
        IN  /\ (client.client_id \notin aud.vals) =>
                last.res = Err("Validation::Missing::Audience")
            /\ (client.client_id \in aud.vals) =>
                last.res # Err("Validation::Missing::Audience")

\* C13 witness: a multi-valued audience without client_id is refused as
\* Missing::Audience although the authorized party is foreign and the token
\* has expired
C13_Witness ==
    /\ ValidatedDecoded
    /\ RulesHold(2)
    /\ last.pre.claims.aud = Multiple({"other", "third"})
    /\ last.pre.claims.azp = Some("other")
    /\ last.pre.claims.exp <= last.clock
    /\ last.res = Err("Validation::Missing::Audience")

ExpiryInclusive ==
    (last.res = ErrVal("Validation::Expired::Expires", last.pre.claims.exp))
        <=> (last.clock >= last.pre.claims.exp)

\* C15 as stated: when the four earlier checks pass, the result is
\* Expired::Expires(expiry) exactly when the clock is at or after the expiry.
C15_Original ==
    (ValidatedDecoded /\ RulesHold(4)) => ExpiryInclusive

\* C15: when the four earlier checks pass and the clock reads WrittenAt or
\* later, the result is Expired::Expires(expiry) exactly when the clock is at
\* or after the expiry; when the clock reads earlier the call panics.
C15_ExpiryInclusive ==
    (ValidatedDecoded /\ RulesHold(4)) =>
        IF last.clock >= WrittenAt
        THEN ExpiryInclusive
        ELSE last.res = CheckClock(last.clock) /\ last.res.kind = "Panic"

\* C15 witness: a token whose expiry is the current second is refused
C15_Witness ==
    /\ ValidatedDecoded
    /\ RulesHold(4)
    /\ last.clock >= WrittenAt
    /\ last.pre.claims.exp = last.clock
    /\ last.res = ErrVal("Validation::Expired::Expires", last.clock)

\* the three cases of the max-age check
MaxAgeCases ==
    LET max == options.max_age
        at  == last.pre.claims.auth_time
    IN  /\ (max = None) => last.res = Ok
        /\ (IsSome(max) /\ at = None) =>
            last.res = Err("Validation::Missing::AuthTime")
        /\ (IsSome(max) /\ IsSome(at)) =>
            LET age == last.clock - Unwrap(at)
            IN  /\ (age >= Unwrap(max)) =>
                    last.res = ErrVal("Validation::Expired::MaxAge", age)
                /\ (age < Unwrap(max)) => last.res = Ok

ClaimsOnly(t) == [t EXCEPT !.alg = "-", !.kid = None, !.sig = "-"]

C18_AuthenticateOrder ==
    (last.op = "authenticate") =>
        LET resp == Unwrap(last.resp)
            steps == last.steps
        IN  /\ ~resp.ok =>
                /\ last.res = Err("ClientError")
                /\ steps = <<"request_token">>
            /\ (resp.ok /\ resp.id_token = None) =>
                /\ last.res = Ok
                /\ steps = <<"request_token">>
                /\ last.id_token = None
            /\ (resp.ok /\ IsSome(resp.id_token)) =>
                LET d == decode_token(client, Unwrap(resp.id_token))
                    v == validate_token(client, d.token, options.nonce,
                                        options.max_age, last.clock)
                IN  /\ (d.res # Ok) =>
                        /\ last.res = d.res
                        /\ steps = <<"request_token", "decode_token">>
                    /\ (d.res = Ok) =>
                        /\ last.res = v
                        /\ steps = <<"request_token", "decode_token",
                                     "validate_token">>
                    /\ (last.res = Ok) =>
                        /\ d.res = Ok /\ v = Ok
                        /\ last.id_token = Some(d.token)

\* C18 witness: the identity token of the response fails to decode and the
\* decode error is returned with no validation
C18_Witness ==
    /\ last.op = "authenticate"
    /\ last.steps = <<"request_token", "decode_token">>
    /\ last.res.kind = "Err"
    /\ last.res.err = "Jose::InvalidSignature"

(***************************************************************************)
(* End to end.                                                             *)
(***************************************************************************)
\* one key k1 declaring HS256 with a symmetric secret, a token signed with
\* it whose header is {HS256, k1}, claims with the expected issuer, the
\* audience given as the list [client1], no authorized party, nonce n1 and an
\* expiry ahead of the clock; the caller expects nonce n1 and gives no
\* max_age
AcceptanceScenario ==
    /\ client = NewClient(ClientId, Issuer, Some(<<TheKey>>))
    /\ options = Options(Some("n1"), None)
    /\ raw.state = "Encoded" /\ raw.hdrOk /\ raw.payloadOk
    /\ raw.alg = "HS256" /\ raw.kid = Some("k1") /\ raw.sig = TheKey.mat
    /\ raw.claims.iss = Issuer
    /\ raw.claims.aud = Multiple({ClientId})
    /\ raw.claims.azp = None
    /\ raw.claims.nonce = Some("n1")
    /\ raw.claims.exp > last.clock
    /\ last.clock >= WrittenAt

\* C19 as stated: in the acceptance scenario decode_token succeeds and
\* exposes the claims of the payload, and validate_token of the decoded
\* token succeeds.
C19_EndToEndAccepted ==
    AcceptanceScenario =>
        /\ (last.op = "decode_token" /\ last.pre = raw) =>
            /\ last.res = Ok
            /\ token = Decoded(raw)
            /\ token.claims = raw.claims
        /\ (last.op = "validate_token" /\ last.pre = Decoded(raw)) =>
            last.res = Ok

\* one symmetric key k1 declaring HS256, and a token whose header declares
\* RS256, has been given to decode_token
ConfusionScenario ==
    /\ client.jwks = Some(<<Key(Some("k1"), Some(SigAlg("HS256")), "OctetKey",
                               "s1")>>)
    /\ last.op = "decode_token"
    /\ last.pre.state = "Encoded" /\ last.pre.hdrOk
    /\ last.pre.alg = "RS256"

\* renderings of the HMAC family as the expected side of WrongKeyType
HmacFamilyNames ==
    {"HS256|HS384|HS512", "HS256 | HS384 | HS512",
     FmtStr("HS256|HS384|HS512"), FmtStr("HS256 | HS384 | HS512")}

\* C20 as stated: in the confusion scenario decode_token fails with
\* WrongKeyType whose expected side names the HMAC family and whose actual
\* side is RS256.
C20_Original ==
    ConfusionScenario =>
        /\ last.res.kind = "Err"
        /\ last.res.err = "Jose::WrongKeyType"
        /\ last.res.expected \in HmacFamilyNames
        /\ last.res.actual = "RS256"

\* C20: in the confusion scenario decode_token fails with WrongKeyType whose
\* expected side is HS256, the algorithm the key declares, and whose actual
\* side is RS256; no verification is attempted and the token stays Encoded.
C20_AlgorithmConfusion ==
    ConfusionScenario =>
        /\ last.res = ErrEA("Jose::WrongKeyType", "HS256", "RS256")
        /\ last.calls = <<>>
        /\ token = last.pre

\* C20 witness: the confusion scenario, with a signature made with the
\* symmetric secret
C20_Witness ==
    /\ ConfusionScenario
    /\ last.pre.sig = "s1"
    /\ last.res.kind = "Err"
    /\ last.res.err = "Jose::WrongKeyType"
    /\ last.res.actual = "RS256"

(***************************************************************************)
(* Several callers sharing one client.  decode_token takes &self and a     *)
(* &mut IdToken of the caller's own; each caller runs it in the steps of   *)
(* its source, reading the client's key set at each of them, and the       *)
(* steps of different callers interleave.  procs[p] holds the position of  *)
(* caller p (pc), the token it passed (arg), that token as it is now       *)
(* (token), the key it selected (key), its result (res), and whether       *)
(* another caller was in flight while it ran (mixed).                      *)
(***************************************************************************)
Procs == {"p1", "p2"}

Proc(pc, arg, t, key, res, mixed) ==
    [pc |-> pc, arg |-> arg, token |-> t, key |-> key, res |-> res,
     mixed |-> mixed]

InFlight(p) == procs[p].pc \notin {"idle", "done"}

\* caller p moves to pc with its token, key and result as given
Goto(p, pc, t, key, res) ==
    Proc(pc, procs[p].arg, t, key, res,
         procs[p].mixed \/ \E q \in Procs \ {p} : InFlight(q))

\* lines 164-176: the early returns and the header
BeginDecode(p) ==
    LET t == procs[p].token IN
    /\ procs[p].pc = "idle"
    /\ procs' = [procs EXCEPT ![p] =
            IF t.state = "Decoded" \/ client.jwks = None
            THEN Goto(p, "done", t, None, Ok)
            ELSE IF ~t.hdrOk
            THEN Goto(p, "done", t, None, Err("Jose::DecodeError"))
            ELSE Goto(p, "select", t, None, Ok)]
    /\ UNCHANGED <<client, options, now, raw, token, last, bearer>>

\* SelectStep taking the selected key out of the client's key set
SelectStep_TakesKey(p) ==
    LET t == procs[p].token
        keys == Unwrap(client.jwks)
        sel == SelectKey(keys, t)
    IN  /\ procs[p].pc = "select"
        /\ procs' = [procs EXCEPT ![p] =
                IF sel.res # Ok THEN Goto(p, "done", t, None, sel.res)
                ELSE Goto(p, "check", t, sel.key, Ok)]
        /\ client' = [client EXCEPT !.jwks =
                IF sel.res # Ok THEN @
                ELSE Some(SelectSeq(keys, LAMBDA k : k # Unwrap(sel.key)))]
        /\ UNCHANGED <<options, now, raw, token, last, bearer>>

\* lines 178-185: the key is selected from the client's key set
SelectStep(p) ==
    LET t == procs[p].token
        sel == SelectKey(Unwrap(client.jwks), t)
    IN  /\ procs[p].pc = "select"
        /\ procs' = [procs EXCEPT ![p] =
                IF sel.res # Ok THEN Goto(p, "done", t, None, sel.res)
                ELSE Goto(p, "check", t, sel.key, Ok)]
        /\ UNCHANGED <<client, options, now, raw, token, last, bearer>>

\* lines 187-195: the algorithm the key declares
CheckStep(p) ==
    LET t == procs[p].token
        chk == CheckDeclaredAlg(Unwrap(procs[p].key), t)
    IN  /\ procs[p].pc = "check"
        /\ procs' = [procs EXCEPT ![p] =
                IF chk # Ok THEN Goto(p, "done", t, procs[p].key, chk)
                ELSE Goto(p, "dispatch", t, procs[p].key, Ok)]
        /\ UNCHANGED <<client, options, now, raw, token, last, bearer>>

\* lines 197-223: verification, and the assignment of the caller's token
DispatchStep(p) ==
    LET t == procs[p].token
        out == Commit(t, Dispatch(Unwrap(procs[p].key), t), procs[p].key)
    IN  /\ procs[p].pc = "dispatch"
        /\ procs' = [procs EXCEPT ![p] =
                Goto(p, "done", out.token, procs[p].key, out.res)]
        /\ UNCHANGED <<client, options, now, raw, token, last, bearer>>

\* the tokens of the callers: with and without key identifier, correctly
\* signed or not, one with an unreadable header, one already Decoded
SharedTokens ==
    LET ts == TokensOver({"HS256"}, {None, Some("k1")}, {"bad", "s1"},
                         {GoodClaims})
    IN  {t \in ts : t.payloadOk}
            \cup {Decoded(Encoded(TRUE, "HS256", Some("k1"), "s1", TRUE,
                                  GoodClaims))}

\* the keys of the shared client: a symmetric and an RSA key declaring no
\* algorithm, and a symmetric key declaring an algorithm of the other family
SharedKeys ==
    {Key(Some("k1"), None, "OctetKey", "s1"),
     Key(Some("k2"), None, "RSA", "n1"),
     Key(Some("k1"), Some(SigAlg("RS256")), "OctetKey", "s1")}

InitShared ==
    /\ client \in {NewClient(ClientId, Issuer, j) :
                     j \in OptionOf(SeqsUpTo(SharedKeys, MaxKeys))}
    /\ options = Options(None, None)
    /\ now = WrittenAt
    /\ raw = Encoded(TRUE, "HS256", Some("k1"), "s1", TRUE, GoodClaims)
    /\ token = raw
    /\ last = NoCall(raw)
    /\ bearer = None
    /\ procs \in [Procs -> {Proc("idle", t, t, None, Ok, FALSE) :
                              t \in SharedTokens}]

NextShared ==
    \/ \E p \in Procs : BeginDecode(p)
    \/ \E p \in Procs : SelectStep(p)
    \/ \E p \in Procs : CheckStep(p)
    \/ \E p \in Procs : DispatchStep(p)
    \/ DecodeToken
    \/ ValidateToken
    \/ Authenticate

SpecShared == InitShared /\ [][NextShared]_vars

\* C21: no step of any call changes the client and its key set, and every
\* decode_token call that has ended, whatever calls of other callers ran in
\* between its steps, has the result and has left its token in the state
\* that decode_token gives for that token and that key set alone.
C21_KeySetReadOnly ==
    [][/\ client' = client
       /\ \A p \in Procs :
            procs'[p].pc = "done" =>
                LET alone == decode_token(client, procs'[p].arg)
                IN  /\ procs'[p].res = alone.res
                    /\ procs'[p].token = alone.token]_vars

\* C21 witness: two calls on different tokens have ended, each having run
\* while the other was in flight, one with a Decoded token and one with a
\* signature error
C21_Witness ==
    /\ \A p \in Procs : procs[p].pc = "done" /\ procs[p].mixed
    /\ procs["p1"].arg # procs["p2"].arg
    /\ procs["p1"].res = Ok
    /\ procs["p1"].arg.state = "Encoded"
    /\ procs["p1"].token.state = "Decoded"
    /\ procs["p2"].res = Err("Jose::InvalidSignature")
    /\ procs["p2"].token = procs["p2"].arg

(***************************************************************************)
(* The provider side of the client: the endpoints of the provider's        *)
(* configuration, the userinfo document, the authorization URL and the     *)
(* refreshing of the Bearer.                                               *)
(***************************************************************************)
\* a Url: scheme, host and path, and the pairs of its query, each already
\* in the form it has in the URL
Url(scheme, rest, query) == [scheme |-> scheme, rest |-> rest, query |-> query]

\* the client with its provider's endpoints and its redirect URI
WithProvider(c, redirect_uri, auth_uri, userinfo_endpoint) ==
    [client_id |-> c.client_id, issuer |-> c.issuer, jwks |-> c.jwks,
     redirect_uri |-> redirect_uri, auth_uri |-> auth_uri,
     userinfo_endpoint |-> userinfo_endpoint]

\* what the provider answers to the userinfo request: no answer, an answer
\* that is no userinfo document, or a document with or without subject
UserinfoResponse(kind, sub) == [kind |-> kind, sub |-> sub]

\* [res, sent, info]: the result, the requests sent (URL and bearer
\* authorization), and the document returned on Ok
UserinfoOut(res, sent, info) == [res |-> res, sent |-> sent, info |-> info]

\* lines 329-354.  id_token is the Option of the Token's identity token
request_userinfo(c, id_token, access_token, resp) ==
    IF c.userinfo_endpoint = None
    THEN UserinfoOut(Err("Userinfo::NoUrl"), <<>>, None)
    ELSE LET url == Unwrap(c.userinfo_endpoint)
             claims == IF IsSome(id_token) THEN Payload(Unwrap(id_token)) ELSE Ok
             sent == <<[url |-> url, bearer_auth |-> access_token]>>
         IN  IF claims # Ok THEN UserinfoOut(claims, <<>>, None)
             ELSE IF resp.kind = "HttpError"
             THEN UserinfoOut(Err("Http"), sent, None)
             ELSE IF resp.kind = "JsonError"
             THEN UserinfoOut(Err("Json"), sent, None)
             ELSE IF IsSome(id_token) /\ IsSome(resp.sub)
                     /\ Unwrap(id_token).claims.sub # Unwrap(resp.sub)
             THEN UserinfoOut(ErrEA("Userinfo::MismatchSubject",
                                    Unwrap(resp.sub),
                                    Unwrap(id_token).claims.sub),
                              sent, None)
             ELSE UserinfoOut(Ok, sent, Some(resp))

(***************************************************************************)
(* Client::auth_uri, lines 577-598.  A text is a sequence of pieces: runs  *)
(* of letters, digits and '.', and single characters that the query        *)
(* serializer must escape.  append_pair writes name and value in the       *)
(* application/x-www-form-urlencoded form.                                 *)
(***************************************************************************)
RECURSIVE Concat(_)
Concat(pieces) ==
    IF pieces = <<>> THEN "" ELSE Head(pieces) \o Concat(Tail(pieces))

\* form_urlencoded::byte_serialize on one piece
EncodePiece(p) ==
    CASE p = " " -> "+"
      [] p = ":" -> "%3A"
      [] p = "/" -> "%2F"
      [] p = "&" -> "%26"
      [] p = "=" -> "%3D"
      [] OTHER -> p

ByteSerialize(text) == [i \in DOMAIN text |-> EncodePiece(text[i])]

\* Serializer::append_pair
append_pair(query, name, value) ==
    Append(query, [name |-> ByteSerialize(<<name>>), value |-> ByteSerialize(value)])

\* Url::as_str
RECURSIVE QueryStr(_)
QueryStr(query) ==
    IF query = <<>> THEN ""
    ELSE Concat(Head(query).name) \o "=" \o Concat(Head(query).value)
            \o (IF Tail(query) = <<>> THEN "" ELSE "&" \o QueryStr(Tail(query)))

as_str(u) ==
    u.scheme \o "://" \o u.rest
        \o (IF u.query = <<>> THEN "" ELSE "?" \o QueryStr(u.query))

\* auth_uri appending scope before redirect_uri
auth_uri_ScopeFirst(c, scope, state) ==
    LET q0 == c.auth_uri.query
        q1 == append_pair(q0, "response_type", <<"code">>)
        q2 == append_pair(q1, "client_id", <<c.client_id>>)
        q3 == IF IsSome(scope) THEN append_pair(q2, "scope", Unwrap(scope))
              ELSE q2
        q4 == IF IsSome(c.redirect_uri)
              THEN append_pair(q3, "redirect_uri", Unwrap(c.redirect_uri))
              ELSE q3
        q5 == IF IsSome(state) THEN append_pair(q4, "state", Unwrap(state))
              ELSE q4
    IN  Url(c.auth_uri.scheme, c.auth_uri.rest, q5)

auth_uri(c, scope, state) ==
    LET q0 == c.auth_uri.query
        q1 == append_pair(q0, "response_type", <<"code">>)
        q2 == append_pair(q1, "client_id", <<c.client_id>>)
        q3 == IF IsSome(c.redirect_uri)
              THEN append_pair(q2, "redirect_uri", Unwrap(c.redirect_uri))
              ELSE q2
        q4 == IF IsSome(scope) THEN append_pair(q3, "scope", Unwrap(scope))
              ELSE q3
        q5 == IF IsSome(state) THEN append_pair(q4, "state", Unwrap(state))
              ELSE q4
    IN  Url(c.auth_uri.scheme, c.auth_uri.rest, q5)

(***************************************************************************)
(* Client::refresh_token, lines 652-684, and Client::ensure_token, lines   *)
(* 686-693.  post is what post_token gave: an error, a document that is no *)
(* Bearer, or a Bearer.                                                    *)
(***************************************************************************)
\* the Bearer of the crate: access token, refresh token if any, and the
\* time it expires at if it does
AccessBearer(access_token, refresh_token, expires) ==
    [access_token |-> access_token, refresh_token |-> refresh_token,
     expires |-> expires]

\* Bearer::expired, line 688: a Bearer that never expires is not expired
expired(b, clock) == IsSome(b.expires) /\ Unwrap(b.expires) < clock

PostResponse(kind, b) == [kind |-> kind, bearer |-> b]

\* [res, bearer, posts]: the result, the Bearer returned on Ok, and the
\* refresh requests posted to the token endpoint, in order
RefreshOut(res, b, posts) == [res |-> res, bearer |-> b, posts |-> posts]

\* refresh_token returning the Bearer of the response as it is
refresh_token_DropsOld(b, scope, post) ==
    IF b.refresh_token = None
    THEN RefreshOut(Panic("No refresh_token field"), None, <<>>)
    ELSE LET posts == <<[refresh_token |-> Unwrap(b.refresh_token),
                         scope |-> scope]>> IN
         IF post.kind = "ClientError"
         THEN RefreshOut(Err("ClientError"), None, posts)
         ELSE IF post.kind = "JsonError"
         THEN RefreshOut(Err("ClientError::Json"), None, posts)
         ELSE RefreshOut(Ok, post.bearer, posts)

refresh_token(b, scope, post) ==
    IF b.refresh_token = None
    THEN RefreshOut(Panic("No refresh_token field"), None, <<>>)
    ELSE LET posts == <<[refresh_token |-> Unwrap(b.refresh_token),
                         scope |-> scope]>> IN
         IF post.kind = "ClientError"
         THEN RefreshOut(Err("ClientError"), None, posts)
         ELSE IF post.kind = "JsonError"
         THEN RefreshOut(Err("ClientError::Json"), None, posts)
         ELSE LET new_token == Unwrap(post.bearer) IN
              RefreshOut(Ok,
                         Some(IF new_token.refresh_token = None
                              THEN [new_token EXCEPT
                                      !.refresh_token = b.refresh_token]
                              ELSE new_token),
                         posts)

ensure_token(b, clock, post) ==
    IF expired(b, clock) THEN refresh_token(b, None, post)
    ELSE RefreshOut(Ok, Some(b), <<>>)

(***************************************************************************)
(* The operations on the provider side.  last records the call, what it    *)
(* was given and what it did.                                              *)
(***************************************************************************)
UserinfoResponses ==
    {UserinfoResponse("HttpError", None), UserinfoResponse("JsonError", None)}
        \cup {UserinfoResponse("Userinfo", sub) : sub \in OptionOf({"sub1", "sub2"})}

RequestUserinfo ==
    \E id_token \in OptionOf({token}), resp \in UserinfoResponses :
        LET out == request_userinfo(client, id_token, bearer.access_token, resp)
        IN  /\ last' = [op |-> "request_userinfo", res |-> out.res,
                        id_token |-> id_token, resp |-> resp,
                        sent |-> out.sent, info |-> out.info]
            /\ UNCHANGED <<client, options, now, raw, token, bearer, procs>>

\* the scopes and states a caller asks for
Scopes == {<<"baz">>, <<"openid", " ", "email">>}
States == {<<"baz">>, <<"a", "=", "b", "&", "c">>}

AuthUri ==
    \E scope \in OptionOf(Scopes), state \in OptionOf(States) :
        /\ last' = [op |-> "auth_uri", scope |-> scope, state |-> state,
                    uri |-> auth_uri(client, scope, state)]
        /\ UNCHANGED <<client, options, now, raw, token, bearer, procs>>

\* what post_token gives to a refresh request
PostResponses ==
    {PostResponse("ClientError", None), PostResponse("JsonError", None)}
        \cup {PostResponse("Bearer", Some(AccessBearer("a2", r, e))) :
                r \in OptionOf({"r2"}), e \in OptionOf({Future})}

\* the caller replaces its Bearer by the one returned, and keeps it when
\* the call fails
RefreshCall(op, out, post) ==
    /\ bearer' = IF out.res = Ok THEN Unwrap(out.bearer) ELSE bearer
    /\ last' = [op |-> op, res |-> out.res, pre |-> bearer, post |-> post,
                posts |-> out.posts, clock |-> now]
    /\ UNCHANGED <<client, options, now, raw, token, procs>>

RefreshToken ==
    \E scope \in OptionOf({<<"baz">>}), post \in PostResponses :
        RefreshCall("refresh_token", refresh_token(bearer, scope, post), post)

EnsureToken ==
    \E post \in PostResponses :
        RefreshCall("ensure_token", ensure_token(bearer, now, post), post)

\* the endpoints of the provider and the redirect URI of the client
AuthEndpoints ==
    {Url("http", "example.com/oauth2/auth", <<>>),
     Url("https", "example.com/oauth2/auth",
         append_pair(<<>>, "tenant", <<"t1">>))}
UserinfoEndpoints ==
    OptionOf({Url("https", "example.com/userinfo", <<>>),
              Url("http", "example.com/userinfo", <<>>)})
RedirectUris ==
    OptionOf({<<"http", ":", "/", "/", "example.com", "/", "oauth2", "/",
               "callback">>})

InitAccess ==
    /\ client \in {WithProvider(NewClient("foo", Issuer, None), r, a, u) :
                     r \in RedirectUris, a \in AuthEndpoints,
                     u \in UserinfoEndpoints}
    /\ options = Options(None, None)
    /\ now \in Times
    /\ raw = Encoded(TRUE, "HS256", Some("k1"), "s1", TRUE, GoodClaims)
    /\ token \in {raw, Decoded(raw)}
    /\ bearer \in {AccessBearer("a1", r, e) :
                     r \in OptionOf({"r1"}), e \in OptionOf({WrittenAt})}
    /\ last = NoCall(token)
    /\ procs = <<>>

NextAccess == RequestUserinfo \/ AuthUri \/ RefreshToken \/ EnsureToken \/ Tick

SpecAccess == InitAccess /\ [][NextAccess]_vars

\* C22 as stated: request_userinfo gives Userinfo::NoUrl without an
\* endpoint, Insecure for an endpoint that is not https, and a Jose error for
\* an identity token that is not Decoded, and in each of these cases sends
\* no request; after a response it gives Ok only if the subject of the
\* document is absent or the one of the identity token, and otherwise
\* Userinfo::MismatchSubject.
C22_UserinfoRejects ==
    (last.op = "request_userinfo") =>
        LET url == client.userinfo_endpoint
            id == last.id_token
            undecoded == IsSome(id) /\ Unwrap(id).state # "Decoded"
            insecure == IsSome(url) /\ Unwrap(url).scheme # "https"
        IN  /\ (url = None) =>
                last.res = Err("Userinfo::NoUrl") /\ last.sent = <<>>
            /\ insecure =>
                /\ last.res.kind = "Err"
                /\ last.res.err \in {"Insecure", "Jose::UnsupportedOperation"}
                /\ last.sent = <<>>
            /\ (IsSome(url) /\ undecoded) =>
                /\ last.res.kind = "Err"
                /\ last.res.err \in {"Insecure", "Jose::UnsupportedOperation"}
                /\ last.sent = <<>>
            /\ (IsSome(id) /\ last.res = Ok) =>
                \/ last.resp.sub = None
                \/ last.resp.sub = Some(Unwrap(id).claims.sub)
            /\ (IsSome(id) /\ last.sent # <<>> /\ last.resp.kind = "Userinfo"
                    /\ IsSome(last.resp.sub)
                    /\ last.resp.sub # Some(Unwrap(id).claims.sub)) =>
                /\ last.res.kind = "Err"
                /\ last.res.err = "Userinfo::MismatchSubject"

(***************************************************************************)
(* The authorization URL.                                                  *)
(***************************************************************************)
\* form_urlencoded::parse on one piece, as the provider reads the query
DecodePiece(p) ==
    CASE p = "+" -> " "
      [] p = "%3A" -> ":"
      [] p = "%2F" -> "/"
      [] p = "%26" -> "&"
      [] p = "%3D" -> "="
      [] OTHER -> p

ParseValue(enc) == [i \in DOMAIN enc |-> DecodePiece(enc[i])]

\* the pair a present value contributes, none for an absent one
PairIfPresent(name, o) ==
    IF IsSome(o) THEN <<[name |-> name, value |-> Unwrap(o)]>> ELSE <<>>

\* C23: the URL auth_uri returns is the authorization endpoint with, after
\* the pairs its query already has, the pairs response_type=code and
\* client_id, then redirect_uri, scope and state, each exactly when the
\* value is present, in this order, and every value reads back from the
\* query as it was given.
C23_AuthUriOrder ==
    (last.op = "auth_uri") =>
        LET u == last.uri
            q0 == client.auth_uri.query
            added == SubSeq(u.query, Len(q0) + 1, Len(u.query))
            want == <<[name |-> "response_type", value |-> <<"code">>],
                      [name |-> "client_id", value |-> <<client.client_id>>]>>
                        \o PairIfPresent("redirect_uri", client.redirect_uri)
                        \o PairIfPresent("scope", last.scope)
                        \o PairIfPresent("state", last.state)
        IN  /\ u.scheme = client.auth_uri.scheme
            /\ u.rest = client.auth_uri.rest
            /\ SubSeq(u.query, 1, Len(q0)) = q0
            /\ Len(added) = Len(want)
            /\ \A i \in DOMAIN want :
                /\ Concat(added[i].name) = want[i].name
                /\ ParseValue(added[i].value) = want[i].value
            /\ (q0 = <<>> /\ client.auth_uri.scheme = "http"
                    /\ IsSome(client.redirect_uri)
                    /\ last.scope = None /\ last.state = None) =>
                as_str(u) = "http://example.com/oauth2/auth?response_type=code&client_id=foo&redirect_uri=http%3A%2F%2Fexample.com%2Foauth2%2Fcallback"

\* C23 witness: redirect URI, scope and state are all present
C23_Witness ==
    /\ last.op = "auth_uri"
    /\ IsSome(client.redirect_uri)
    /\ last.scope = Some(<<"openid", " ", "email">>)
    /\ last.state = Some(<<"a", "=", "b", "&", "c">>)
    /\ as_str(last.uri) = "http://example.com/oauth2/auth?response_type=code&client_id=foo&redirect_uri=http%3A%2F%2Fexample.com%2Foauth2%2Fcallback&scope=openid+email&state=a%3Db%26c"

(***************************************************************************)
(* What a successful authenticate guarantees.                              *)
(***************************************************************************)
\* C24: when authenticate returns Ok with an identity token, that token is
\* Decoded and is the delivered one, exactly one verification was made, with
\* the material of a key of the client's key set and the algorithm of the
\* header, and the signature is the one that material gives; and the claims
\* violate none of the six rules at the clock reading of the call.
C24_AuthenticatedTokenTrusted ==
    (last.op = "authenticate" /\ last.res = Ok /\ IsSome(last.id_token)) =>
        LET t == Unwrap(last.id_token)
            given == Unwrap(Unwrap(last.resp).id_token)
        IN  /\ t.state = "Decoded"
            /\ t = Decoded(given)
            /\ token = t
            /\ IsSome(client.jwks)
            /\ Len(last.calls) = 1
            /\ \E i \in DOMAIN Unwrap(client.jwks) :
                /\ Unwrap(client.jwks)[i].mat = last.calls[1].mat
                /\ Some(Unwrap(client.jwks)[i]) = last.key
            /\ last.calls[1].alg = given.alg
            /\ given.sig = last.calls[1].mat
            /\ \A i \in 1..6 : ~RuleViolated(i, t.claims, last.clock)

\* C24 witness: authenticate has returned Ok with an identity token of
\* several audiences, with a nonce and a max_age expected
C24_Witness ==
    /\ last.op = "authenticate"
    /\ last.res = Ok
    /\ IsSome(last.id_token)
    /\ Unwrap(last.id_token).claims.aud.multi
    /\ IsSome(options.nonce)
    /\ IsSome(options.max_age)

(***************************************************************************)
(* The place of the clock check, and authentication times ahead of the     *)
(* clock.                                                                  *)
(***************************************************************************)
\* C25: validate_token panics only on a Decoded token satisfying the first
\* four rules with the clock before WrittenAt, and then it does, expired or
\* not; a Decoded token violating one of the four rules gets the error of
\* the earliest one violated also when the clock is before WrittenAt; and an
\* Encoded token gets the payload error whatever the clock reads.
C25_ClockPanicPlace ==
    (last.op = "validate_token") =>
        LET decoded == last.pre.state = "Decoded"
            early == {i \in 1..4 :
                        RuleViolated(i, last.pre.claims, last.clock)}
        IN  /\ (last.res.kind = "Panic") <=>
                (decoded /\ early = {} /\ last.clock < WrittenAt)
            /\ (last.res.kind = "Panic") => last.res = CheckClock(last.clock)
            /\ (decoded /\ early # {}) =>
                /\ last.res.kind = "Err"
                /\ RuleOf(last.res) \in early
                /\ \A i \in early : RuleOf(last.res) <= i
            /\ ~decoded => last.res = Err("Jose::UnsupportedOperation")

\* C25 witness: the clock reads before WrittenAt and a token with a foreign
\* authorized party gets Mismatch::AuthorizedParty, no panic
C25_Witness ==
    /\ ValidatedDecoded
    /\ last.clock < WrittenAt
    /\ RulesHold(3)
    /\ last.res.kind = "Err"
    /\ last.res.err = "Validation::Mismatch::AuthorizedParty"

\* C26: when the five earlier rules hold and a max_age is given, a token
\* whose authentication time is later than the clock gets no max-age error,
\* and is accepted when the clock reads WrittenAt or later: its age is
\* negative and below every max_age.
C26_FutureAuthTimeAccepted ==
    (/\ ValidatedDecoded
     /\ RulesHold(5)
     /\ IsSome(options.max_age)
     /\ IsSome(last.pre.claims.auth_time)
     /\ Unwrap(last.pre.claims.auth_time) > last.clock) =>
        /\ last.clock - Unwrap(last.pre.claims.auth_time) < 0
        /\ RuleOf(last.res) # 6
        /\ (last.clock >= WrittenAt) => last.res = Ok

\* C26 witness: max_age 0 and an authentication time ahead of the clock:
\* the token is accepted
C26_Witness ==
    /\ ValidatedDecoded
    /\ RulesHold(5)
    /\ options.max_age = Some(0)
    /\ IsSome(last.pre.claims.auth_time)
    /\ Unwrap(last.pre.claims.auth_time) > last.clock
    /\ last.clock >= WrittenAt
    /\ last.res = Ok

(***************************************************************************)
(* Refreshing.                                                             *)
(***************************************************************************)
\* C27: a refresh_token call that succeeds leaves the caller with the
\* Bearer of the response, carrying the refresh token of the response if it
\* has one and else the one of the Bearer passed; ensure_token on a Bearer
\* that is not expired returns it as it is and posts nothing, and on an
\* expired one with a refresh token posts exactly one refresh request; and
\* a call on a Bearer with a refresh token never panics and leaves the
\* caller with a Bearer that has one.
C27_RefreshKeepsToken ==
    [][(last' # last /\ last'.op \in {"refresh_token", "ensure_token"}) =>
          LET post == last'.post
              refreshed ==
                  LET got == Unwrap(post.bearer) IN
                  [got EXCEPT !.refresh_token =
                      IF IsSome(got.refresh_token) THEN got.refresh_token
                      ELSE bearer.refresh_token]
              posted == <<[refresh_token |-> Unwrap(bearer.refresh_token),
                           scope |-> None]>>
          IN  /\ (last'.op = "refresh_token" /\ last'.res = Ok) =>
                  /\ post.kind = "Bearer"
                  /\ bearer' = refreshed
                  /\ Len(last'.posts) = 1
              /\ (last'.op = "ensure_token" /\ ~expired(bearer, now)) =>
                  /\ last'.res = Ok
                  /\ bearer' = bearer
                  /\ last'.posts = <<>>
              /\ (last'.op = "ensure_token" /\ expired(bearer, now)
                      /\ IsSome(bearer.refresh_token)) =>
                  /\ last'.posts = posted
                  /\ (last'.res = Ok) <=> (post.kind = "Bearer")
                  /\ (last'.res = Ok) => bearer' = refreshed
              /\ IsSome(bearer.refresh_token) =>
                  /\ last'.res.kind # "Panic"
                  /\ IsSome(bearer'.refresh_token)]_vars

\* C27 witness: ensure_token has refreshed an expired Bearer, the response
\* had no refresh token, and the caller's new Bearer carries the old one
C27_Witness ==
    /\ last.op = "ensure_token"
    /\ last.res = Ok
    /\ expired(last.pre, last.clock)
    /\ last.pre.refresh_token = Some("r1")
    /\ last.post.kind = "Bearer"
    /\ Unwrap(last.post.bearer).refresh_token = None
    /\ bearer.access_token = "a2"
    /\ bearer.refresh_token = Some("r1")
====
